---- MODULE Spec2Model ----
(***************************************************************************)
(* A model of poker.py (Python 2): Card, Hand, Hand.eval and the rich      *)
(* comparisons of Hand.  Python values are tagged records, so that a       *)
(* returned value and a raised exception can sit in the same variable.     *)
(***************************************************************************)
EXTENDS Integers, Sequences, FiniteSets, TLC

VARIABLES hand, arg, op, ret

vars == <<hand, arg, op, ret>>

(* ---------------------------------------------------------------- values *)

None == [type |-> "NoneType"]

PyStr(s) == [type |-> "str", val |-> s]

PyList(s) == [type |-> "list", val |-> s]

PyBool(b) == [type |-> "bool", val |-> b]

PyTuple(t) == [type |-> "tuple", val |-> t]

Raise(kind, msg) == [type |-> kind, msg |-> msg]

(* ord() of the characters the program compares. *)
ord ==
  (" " :> 32) @@
  ("a" :> 97) @@ ("c" :> 99) @@ ("d" :> 100) @@ ("e" :> 101) @@ ("f" :> 102) @@
  ("g" :> 103) @@ ("h" :> 104) @@ ("i" :> 105) @@ ("k" :> 107) @@ ("l" :> 108) @@
  ("n" :> 110) @@ ("o" :> 111) @@ ("p" :> 112) @@ ("r" :> 114) @@ ("s" :> 115) @@
  ("t" :> 116) @@ ("u" :> 117) @@ ("w" :> 119)

(* Python's comparison of two sequences of integers (str and tuple order): *)
(* the first differing position decides, a proper prefix is the smaller.   *)
RECURSIVE SeqLess(_, _)
SeqLess(a, b) ==
  IF b = <<>> THEN FALSE
  ELSE IF a = <<>> THEN TRUE
  ELSE IF Head(a) # Head(b) THEN Head(a) < Head(b)
  ELSE SeqLess(Tail(a), Tail(b))

(* sorted(seq, key=key) on the list of pairs <<key(x), x>>: a stable        *)
(* insertion sort by the keys, which are tuples of integers.               *)
RECURSIVE Insert(_, _)
Insert(p, s) ==
  IF s = <<>> THEN <<p>>
  ELSE IF SeqLess(p[1], Head(s)[1]) THEN <<p>> \o s
  ELSE <<Head(s)>> \o Insert(p, Tail(s))

RECURSIVE SortPairs(_)
SortPairs(s) ==
  IF s = <<>> THEN <<>>
  ELSE Insert(s[Len(s)], SortPairs(SubSeq(s, 1, Len(s) - 1)))

sorted(keyed) ==
  LET r == SortPairs(keyed)
  IN  [i \in 1..Len(r) |-> r[i][2]]

(* range(a, b) of Python 2: the list [a, a+1, ..., b-1]. *)
range(a, b) == [i \in 1..(b - a) |-> a + i - 1]

(* str.split(): the maximal runs of non-blank characters, as str values. *)
RECURSIVE SplitFrom(_, _)
SplitFrom(chars, cur) ==
  IF chars = <<>> THEN (IF cur = <<>> THEN <<>> ELSE <<PyStr(cur)>>)
  ELSE IF Head(chars) = " "
       THEN (IF cur = <<>> THEN <<>> ELSE <<PyStr(cur)>>) \o SplitFrom(Tail(chars), <<>>)
       ELSE SplitFrom(Tail(chars), Append(cur, Head(chars)))

split(chars) == SplitFrom(chars, <<>>)

(* sep.join(parts) on sequences of characters. *)
RECURSIVE join(_, _)
join(sep, parts) ==
  IF parts = <<>> THEN <<>>
  ELSE IF Len(parts) = 1 THEN parts[1]
  ELSE parts[1] \o sep \o join(sep, Tail(parts))

(* ------------------------------------------------------------------ Card *)

RANK_NAME_TO_RANK ==
  (<<"2">> :> 2) @@ (<<"3">> :> 3) @@ (<<"4">> :> 4) @@ (<<"5">> :> 5) @@
  (<<"6">> :> 6) @@ (<<"7">> :> 7) @@ (<<"8">> :> 8) @@ (<<"9">> :> 9) @@
  (<<"1", "0">> :> 10) @@ (<<"J">> :> 11) @@ (<<"Q">> :> 12) @@
  (<<"K">> :> 13) @@ (<<"A">> :> 14)

SUITS == {"h", "d", "c", "s"}

(* Card.__init__: the last character is the suit, the rest the rank name. *)
Card(name) ==
  LET rank == SubSeq(name, 1, Len(name) - 1)
      suit == name[Len(name)]
  IN  IF rank \notin DOMAIN RANK_NAME_TO_RANK
        THEN Raise("AssertionError", "Bad rank: %s")
      ELSE IF suit \notin SUITS
        THEN Raise("AssertionError", "Bad suit: %s")
      ELSE [type |-> "Card", name |-> name,
            rank |-> RANK_NAME_TO_RANK[rank], suit |-> suit]

(* Card.__eq__ comparing the ranks alone. *)
Card_eq_rank_only(c, d) == c.rank = d.rank

(* Card.__eq__ *)
Card_eq(c, d) == c.rank = d.rank /\ c.suit = d.suit

(* set(cards): Card.__hash__ hashes the name and Card.__eq__ compares rank  *)
(* and suit; cards that are __eq__ have the same name, hence the same hash, *)
(* so the set keeps one card of every __eq__ class.                         *)
SetOfCards(cards) ==
  {i \in 1..Len(cards) : \A j \in 1..(i - 1) : ~Card_eq(cards[i], cards[j])}

(* ------------------------------------------------------------------ Hand *)

HandSize == 5

(* Hand.__init__: a str is split into names, every element that is not a   *)
(* Card is made one (the first failing Card() raises), then the two asserts.*)
Hand(cards) ==
  LET elems == IF cards.type = "str" THEN split(cards.val) ELSE cards.val
      built == [i \in 1..Len(elems) |->
                  IF elems[i].type = "Card" THEN elems[i] ELSE Card(elems[i].val)]
      bad   == {i \in 1..Len(built) : built[i].type # "Card"}
  IN  IF bad # {}
        THEN built[CHOOSE i \in bad : \A j \in bad : i <= j]
      ELSE IF Len(built) # HandSize
        THEN Raise("AssertionError", "Hands must have 5 cards.")
      ELSE IF Cardinality(SetOfCards(built)) # HandSize
        THEN Raise("AssertionError", "Cards in hand must be distinct!")
      ELSE [type |-> "Hand", cards |-> built]

(* The sort key without the suit. *)
CardKey_rank_only(c) == <<14 - c.rank>>

(* The key of both sorts of the cards: (14 - c.rank, -ord(c.suit)). *)
CardKey(c) == <<14 - c.rank, 0 - ord[c.suit]>>

(* sorted(self.cards, key=lambda c: (14 - c.rank, -ord(c.suit))) *)
SortedCards(cards) ==
  sorted([i \in 1..Len(cards) |-> <<CardKey(cards[i]), cards[i]>>])

(* Hand.__repr__ *)
Hand_repr(self) ==
  LET h == SortedCards(self.cards)
  IN  PyStr(<<"<", "H", "a", "n", "d", " ">>
            \o join(<<" ">>, [i \in 1..Len(h) |-> h[i].name])
            \o <<">">>)

IntKey(n) == <<n>>

(* is_consecutive without the ace-low straight. *)
is_consecutive_no_wheel(self) ==
  LET rank_list == sorted([i \in 1..Len(self.cards) |->
                              <<IntKey(self.cards[i].rank), self.cards[i].rank>>])
  IN  rank_list = range(rank_list[1], rank_list[Len(rank_list)] + 1)

(* is_consecutive on the ranks as given, not sorted. *)
is_consecutive_unsorted(self) ==
  LET rank_list == [i \in 1..Len(self.cards) |-> self.cards[i].rank]
  IN  IF rank_list = range(rank_list[1], rank_list[Len(rank_list)] + 1) THEN TRUE
      ELSE IF rank_list = <<2, 3, 4, 5, 14>> THEN TRUE
      ELSE FALSE

(* Hand.is_consecutive *)
is_consecutive(self) ==
  LET rank_list == sorted([i \in 1..Len(self.cards) |->
                              <<IntKey(self.cards[i].rank), self.cards[i].rank>>])
  IN  IF rank_list = range(rank_list[1], rank_list[Len(rank_list)] + 1) THEN TRUE
      ELSE IF rank_list = <<2, 3, 4, 5, 14>> THEN TRUE
      ELSE FALSE

(* collections.Counter(ranks): rank -> number of occurrences. *)
Counter(ranks) ==
  [r \in {ranks[i] : i \in 1..Len(ranks)} |->
      Cardinality({i \in 1..Len(ranks) : ranks[i] = r})]

(* counts.items() as a list.  Python 2 lists a dict in hash order; the sort *)
(* key below is different for any two items, so the order here cannot show. *)
RECURSIVE items(_)
items(counts) ==
  IF DOMAIN counts = {} THEN <<>>
  ELSE LET r == CHOOSE x \in DOMAIN counts : \A y \in DOMAIN counts : x <= y
       IN  <<<<r, counts[r]>>>> \o items([x \in DOMAIN counts \ {r} |-> counts[x]])

CountKey(tup) == <<0 - tup[2], 0 - tup[1]>>

(* sorted(counts.items(), key=lambda tup: (-tup[1], -tup[0])) *)
SortedByCounts(counts) ==
  LET its == items(counts)
  IN  sorted([i \in 1..Len(its) |-> <<CountKey(its[i]), its[i]>>])

values(counts) == {counts[r] : r \in DOMAIN counts}

(* Hand.eval *)
eval(self) ==
  LET sorted_hand      == SortedCards(self.cards)
      suits            == {sorted_hand[i].suit : i \in 1..Len(sorted_hand)}
      flush_status     == Cardinality(suits) = 1
      straight_status  == is_consecutive(self)
      ranks            == [i \in 1..Len(sorted_hand) |-> sorted_hand[i].rank]
      counts           == Counter(ranks)
      sorted_by_counts == SortedByCounts(counts)
      determining      == sorted_by_counts[1][1]
  IN  IF straight_status /\ flush_status THEN PyTuple(<<"straight flush", determining>>)
      ELSE IF 4 \in values(counts) THEN PyTuple(<<"four of a kind", determining>>)
      ELSE IF 3 \in values(counts) /\ 2 \in values(counts)
        THEN PyTuple(<<"full house", determining>>)
      ELSE IF flush_status THEN PyTuple(<<"flush", determining>>)
      ELSE IF straight_status THEN PyTuple(<<"straight", determining>>)
      ELSE IF 3 \in values(counts) THEN PyTuple(<<"three of a kind", determining>>)
      ELSE IF Cardinality({r \in DOMAIN counts : counts[r] = 2}) > 1
        THEN PyTuple(<<"two pair", determining>>)
      ELSE IF 2 \in values(counts) THEN PyTuple(<<"pair", determining>>)
      ELSE PyTuple(<<"high card", determining>>)

(* ----------------------------------------------------------- comparisons *)

hierarchy ==
  ("straight flush" :> 9) @@ ("four of a kind" :> 8) @@ ("full house" :> 7) @@
  ("flush" :> 6) @@ ("straight" :> 5) @@ ("three of a kind" :> 4) @@
  ("two pair" :> 3) @@ ("pair" :> 2) @@ ("high card" :> 1)

(* The characters of the category names eval returns. *)
chars ==
  ("straight flush" :> <<"s","t","r","a","i","g","h","t"," ","f","l","u","s","h">>) @@
  ("four of a kind" :> <<"f","o","u","r"," ","o","f"," ","a"," ","k","i","n","d">>) @@
  ("full house" :> <<"f","u","l","l"," ","h","o","u","s","e">>) @@
  ("flush" :> <<"f","l","u","s","h">>) @@
  ("straight" :> <<"s","t","r","a","i","g","h","t">>) @@
  ("three of a kind" :> <<"t","h","r","e","e"," ","o","f"," ","a"," ","k","i","n","d">>) @@
  ("two pair" :> <<"t","w","o"," ","p","a","i","r">>) @@
  ("pair" :> <<"p","a","i","r">>) @@
  ("high card" :> <<"h","i","g","h"," ","c","a","r","d">>)

(* str < str of Python 2: by the character codes. *)
StrLess(s, t) ==
  SeqLess([i \in 1..Len(chars[s]) |-> ord[chars[s][i]]],
          [i \in 1..Len(chars[t]) |-> ord[chars[t][i]]])

(* (str, int) <= (str, int): the first differing component decides. *)
TupleLe(a, b) ==
  IF a[1] # b[1] THEN StrLess(a[1], b[1]) ELSE a[2] <= b[2]

(* Hand.__eq__ *)
Hand_eq(self, other) == PyBool(eval(self).val = eval(other).val)

(* Hand.__ne__ *)
Hand_ne(self, other) == PyBool(eval(self).val # eval(other).val)

(* Hand.__lt__: inside a method the bare name hierarchy is looked up as a   *)
(* global, never as the class attribute, and the module defines no such    *)
(* global: the lookup raises before anything is compared.                  *)
Hand_lt(self, other) ==
  Raise("NameError", "global name 'hierarchy' is not defined")

(* Hand.__le__ *)
Hand_le(self, other) == PyBool(TupleLe(eval(self).val, eval(other).val))

(* a > b: Hand defines no __gt__, so Python 2 calls the reflected b.__lt__(a). *)
Hand_gt(self, other) == Hand_lt(other, self)

(* a >= b: Hand defines no __ge__, so Python 2 calls the reflected b.__le__(a). *)
Hand_ge(self, other) == Hand_le(other, self)

(* ---------------------------------------------------------------- inputs *)

(* The card names the callers draw from, in no particular order of strength. *)
DeckList ==
  << <<"2","h">>, <<"3","s">>, <<"4","s">>, <<"5","s">>, <<"6","s">>, <<"A","s">>,
     <<"2","s">>, <<"2","d">>, <<"3","h">>, <<"2","c">>, <<"1","0","h">>, <<"7","s">> >>

(* How many cards of DeckList one hand is drawn from ... *)
NumDeck == 10

(* ... and how many where two hands are built. *)
NumPairDeck == 9

(* How far from five the number of cards given may be. *)
SizeSlack == 1

Slots == {"A", "B"}

IndexSets(n, k) == {S \in SUBSET (1..n) : Cardinality(S) = k}

RECURSIVE Ascending(_)
Ascending(S) ==
  IF S = {} THEN <<>>
  ELSE LET m == CHOOSE x \in S : \A y \in S : x <= y
       IN  <<m>> \o Ascending(S \ {m})

Names(idx) == [i \in 1..Len(idx) |-> DeckList[idx[i]]]

NameList(idx) == PyList([i \in 1..Len(idx) |-> PyStr(DeckList[idx[i]])])

Perms == Permutations(1..HandSize)

Permuted(in, p) == PyList([i \in 1..Len(in.val) |-> in.val[p[i]]])

(* Five different cards among the first n of the deck, in deck order. *)
DeckOrderLists(n) == {NameList(Ascending(S)) : S \in IndexSets(n, HandSize)}

PairInputs == DeckOrderLists(NumPairDeck)

(* ... and in every order. *)
ValidLists == {Permuted(in, p) : in \in DeckOrderLists(NumDeck), p \in Perms}

(* Too few or too many cards, with and without a repeated card. *)
OtherSizes ==
  {NameList(Ascending(S)) :
     S \in {T \in SUBSET (1..NumDeck) :
              /\ Cardinality(T) # HandSize
              /\ Cardinality(T) >= HandSize - SizeSlack
              /\ Cardinality(T) <= HandSize + SizeSlack}}
  \cup UNION {{NameList(Append(Ascending(S), i)) : i \in S} :
                S \in IndexSets(NumDeck, HandSize)}

(* Five cards, one of them twice. *)
DupLists ==
  UNION {{NameList(Append(Ascending(S), i)) : i \in S}
           \cup {NameList(<<i>> \o Ascending(S)) : i \in S} :
         S \in IndexSets(NumDeck, HandSize - 1)}

(* The same hands as one string of names, and as a list of Card objects. *)
Strings ==
  {PyStr(join(<<" ">>, Names(Ascending(S)))) : S \in IndexSets(NumDeck, HandSize)}

CardLists ==
  {PyList([i \in 1..HandSize |-> Card(DeckList[Ascending(S)[i]])]) :
     S \in IndexSets(NumDeck, HandSize)}

(* A name that is no card, after four that are. *)
BadNames == {<<"1","s">>, <<"A","x">>}

BadLists ==
  UNION {{PyList(Append(NameList(Ascending(S)).val, PyStr(b))) : b \in BadNames} :
           S \in IndexSets(NumDeck, HandSize - 1)}

Inputs == ValidLists \cup OtherSizes \cup DupLists \cup Strings \cup CardLists \cup BadLists

(* --------------------------------------------------------------- actions *)

Init ==
  /\ hand = [s \in Slots |-> None]
  /\ arg = [s \in Slots |-> None]
  /\ op = [name |-> "none", args |-> <<>>]
  /\ ret = None

IsHand(s) == hand[s].type = "Hand"

(* s = Hand(in): on success the name is bound to the object, otherwise the *)
(* exception leaves it unbound.  A name is bound once.                     *)
NewHand(s, ins) ==
  /\ arg[s] = None
  /\ \E in \in ins :
       LET h == Hand(in)
       IN  /\ arg' = [arg EXCEPT ![s] = in]
           /\ hand' = [hand EXCEPT ![s] = IF h.type = "Hand" THEN h ELSE None]
           /\ op' = [name |-> "Hand", args |-> <<s>>]
           /\ ret' = h

(* B = Hand(the names given for A, in another order) *)
Shuffle ==
  /\ IsHand("A")
  /\ arg["B"] = None
  /\ \E p \in Perms :
       LET in == Permuted(arg["A"], p)
           h  == Hand(in)
       IN  /\ arg' = [arg EXCEPT !["B"] = in]
           /\ hand' = [hand EXCEPT !["B"] = IF h.type = "Hand" THEN h ELSE None]
           /\ op' = [name |-> "Hand", args |-> <<"B">>]
           /\ ret' = h

DoEval(s) ==
  /\ IsHand(s)
  /\ op' = [name |-> "eval", args |-> <<s>>]
  /\ ret' = eval(hand[s])
  /\ UNCHANGED <<hand, arg>>

DoRepr(s) ==
  /\ IsHand(s)
  /\ op' = [name |-> "repr", args |-> <<s>>]
  /\ ret' = Hand_repr(hand[s])
  /\ UNCHANGED <<hand, arg>>

DoIsConsecutive(s) ==
  /\ IsHand(s)
  /\ op' = [name |-> "is_consecutive", args |-> <<s>>]
  /\ ret' = PyBool(is_consecutive(hand[s]))
  /\ UNCHANGED <<hand, arg>>

DoEq(s, t) ==
  /\ IsHand(s) /\ IsHand(t)
  /\ op' = [name |-> "eq", args |-> <<s, t>>]
  /\ ret' = Hand_eq(hand[s], hand[t])
  /\ UNCHANGED <<hand, arg>>

DoNe(s, t) ==
  /\ IsHand(s) /\ IsHand(t)
  /\ op' = [name |-> "ne", args |-> <<s, t>>]
  /\ ret' = Hand_ne(hand[s], hand[t])
  /\ UNCHANGED <<hand, arg>>

DoLt(s, t) ==
  /\ IsHand(s) /\ IsHand(t)
  /\ op' = [name |-> "lt", args |-> <<s, t>>]
  /\ ret' = Hand_lt(hand[s], hand[t])
  /\ UNCHANGED <<hand, arg>>

DoLe(s, t) ==
  /\ IsHand(s) /\ IsHand(t)
  /\ op' = [name |-> "le", args |-> <<s, t>>]
  /\ ret' = Hand_le(hand[s], hand[t])
  /\ UNCHANGED <<hand, arg>>

DoGt(s, t) ==
  /\ IsHand(s) /\ IsHand(t)
  /\ op' = [name |-> "gt", args |-> <<s, t>>]
  /\ ret' = Hand_gt(hand[s], hand[t])
  /\ UNCHANGED <<hand, arg>>

DoGe(s, t) ==
  /\ IsHand(s) /\ IsHand(t)
  /\ op' = [name |-> "ge", args |-> <<s, t>>]
  /\ ret' = Hand_ge(hand[s], hand[t])
  /\ UNCHANGED <<hand, arg>>

(* One hand: built from any input, then evaluated and displayed. *)
Next ==
  \/ NewHand("A", Inputs)
  \/ DoEval("A")
  \/ DoRepr("A")
  \/ DoIsConsecutive("A")

Spec == Init /\ [][Next]_vars

(* Two hands of the same cards in different orders. *)
NextShuffle ==
  \/ NewHand("A", PairInputs)
  \/ Shuffle
  \/ \E s \in Slots : DoEval(s)
  \/ DoEq("A", "B")
  \/ DoNe("A", "B")

SpecShuffle == Init /\ [][NextShuffle]_vars

(* Two hands, compared. *)
NextCompare ==
  \/ \E s \in Slots : NewHand(s, PairInputs)
  \/ DoEq("A", "B")
  \/ DoNe("A", "B")
  \/ DoLt("A", "B")
  \/ DoLe("A", "B")
  \/ DoGt("A", "B")
  \/ DoGe("A", "B")

SpecCompare == Init /\ [][NextCompare]_vars

(* ------------------------------------------------- what the claims speak of *)

True == PyBool(TRUE)

False == PyBool(FALSE)

CardsOf(s) == {hand[s].cards[i] : i \in 1..Len(hand[s].cards)}

RankSet(s) == {c.rank : c \in CardsOf(s)}

CountOf(s, r) == Cardinality({c \in CardsOf(s) : c.rank = r})

IsFlush(s) == \A c, d \in CardsOf(s) : c.suit = d.suit

IsWheel(s) == RankSet(s) = {2, 3, 4, 5, 14}

IsStraight(s) ==
  \/ /\ Cardinality(RankSet(s)) = HandSize
     /\ \E lo \in RankSet(s) : RankSet(s) = lo..(lo + HandSize - 1)
  \/ IsWheel(s)

(* The first matching row of the priority table. *)
TableCategory(s) ==
  IF IsStraight(s) /\ IsFlush(s) THEN "straight flush"
  ELSE IF \E r \in RankSet(s) : CountOf(s, r) = 4 THEN "four of a kind"
  ELSE IF \E r, q \in RankSet(s) : r # q /\ CountOf(s, r) = 3 /\ CountOf(s, q) = 2
    THEN "full house"
  ELSE IF IsFlush(s) THEN "flush"
  ELSE IF IsStraight(s) THEN "straight"
  ELSE IF \E r \in RankSet(s) : CountOf(s, r) = 3 THEN "three of a kind"
  ELSE IF \E r, q \in RankSet(s) : r # q /\ CountOf(s, r) = 2 /\ CountOf(s, q) = 2
    THEN "two pair"
  ELSE IF \E r \in RankSet(s) : CountOf(s, r) = 2 THEN "pair"
  ELSE "high card"

(* The determining rank: the highest of the ranks that occur most often. *)
Determining(s) ==
  CHOOSE r \in RankSet(s) :
    \A q \in RankSet(s) :
      CountOf(s, q) < CountOf(s, r) \/ (CountOf(s, q) = CountOf(s, r) /\ q <= r)

(* c comes before d in canonical order: higher rank, then higher suit code. *)
Before(c, d) == c.rank > d.rank \/ (c.rank = d.rank /\ ord[c.suit] > ord[d.suit])

IsCanonical(cards) ==
  \A i, j \in 1..Len(cards) : i < j => Before(cards[i], cards[j])

(* The names of a set of different cards in canonical order. *)
CanonicalNames(S) ==
  [k \in 1..Cardinality(S) |->
     (CHOOSE c \in S : Cardinality({d \in S : Before(d, c)}) = k - 1).name]

(* The card names an input gives, in the order it gives them. *)
InputNames(in) ==
  LET elems == IF in.type = "str" THEN split(in.val) ELSE in.val
  IN  [i \in 1..Len(elems) |->
         IF elems[i].type = "Card" THEN elems[i].name ELSE elems[i].val]

ValidNames ==
  {r \o <<u>> : r \in DOMAIN RANK_NAME_TO_RANK, u \in SUITS}

AllValid(in) == \A i \in 1..Len(InputNames(in)) : InputNames(in)[i] \in ValidNames

HasDuplicate(in) ==
  \E i, j \in 1..Len(InputNames(in)) : i < j /\ InputNames(in)[i] = InputNames(in)[j]

(* The ranks of s outside the determining rank, highest first, as far as    *)
(* they decide between s and t: s has the higher remaining ranks.           *)
RECURSIVE Descending(_)
Descending(B) ==
  IF DOMAIN B = {} THEN <<>>
  ELSE LET m == CHOOSE x \in DOMAIN B : \A y \in DOMAIN B : y <= x
       IN  [i \in 1..B[m] |-> m] \o Descending([x \in DOMAIN B \ {m} |-> B[x]])

RankBag(s) == [r \in RankSet(s) |-> CountOf(s, r)]

Remaining(s) ==
  Descending([r \in RankSet(s) \ {Determining(s)} |-> CountOf(s, r)])

SameButForKickers(s, t) ==
  /\ TableCategory(s) = TableCategory(t)
  /\ Determining(s) = Determining(t)
  /\ RankBag(s) # RankBag(t)

(* ---------------------------------------------------------------- claims *)

(* C1: whenever eval has returned for a hand, the category it returned is   *)
(* the first matching row of the priority table; a straight that is a flush *)
(* is a straight flush, and a hand with a repeated rank is no straight.     *)
C1_CategoryIsFirstMatchingRow ==
  op.name = "eval" =>
    /\ ret.type = "tuple"
    /\ ret.val[1] = TableCategory("A")
    /\ (IsStraight("A") /\ IsFlush("A")) => ret.val[1] = "straight flush"
    /\ Cardinality(RankSet("A")) < HandSize
         => ret.val[1] \notin {"straight", "straight flush"}

(* eval has classified an ace-low straight in one suit. *)
C1_Witness ==
  /\ op.name = "eval"
  /\ IsWheel("A") /\ IsFlush("A")
  /\ ret.val[1] = "straight flush"

(* C2: for hands of different categories, A < B returns true exactly when   *)
(* A's category is lower in the hierarchy table, and A > B exactly when it  *)
(* is higher.                                                               *)
C2_LessThanByCategory ==
  (op.name \in {"lt", "gt"} /\ TableCategory("A") # TableCategory("B")) =>
    /\ ret.type = "bool"
    /\ op.name = "lt" =>
         (ret.val <=> hierarchy[TableCategory("A")] < hierarchy[TableCategory("B")])
    /\ op.name = "gt" =>
         (ret.val <=> hierarchy[TableCategory("A")] > hierarchy[TableCategory("B")])

(* C3: eval of an ace-low straight that is no flush returns a straight      *)
(* whose determining value is 5.                                            *)
C3_WheelDeterminedByFive ==
  (op.name = "eval" /\ IsWheel("A") /\ ~IsFlush("A")) =>
    ret = PyTuple(<<"straight", 5>>)

(* C4: two hands of one category and one determining rank whose ranks       *)
(* differ are not equal, and the one with the higher remaining ranks is the *)
(* greater.                                                                 *)
C4_KickersDecide ==
  (IsHand("A") /\ IsHand("B") /\ SameButForKickers("A", "B")) =>
    /\ op.name = "eq" => ret = False
    /\ op.name = "gt" =>
         /\ ret.type = "bool"
         /\ ret.val <=> SeqLess(Remaining("B"), Remaining("A"))

(* C5: a hand built from the same names in another order is a hand, eval    *)
(* returns the same pair for both, and the two are equal.                   *)
C5_OrderInvariant ==
  (IsHand("A") /\ arg["B"] # None) =>
    /\ IsHand("B")
    /\ op.name = "eval" => ret = eval(hand[IF op.args[1] = "A" THEN "B" ELSE "A"])
    /\ op.name = "eq" => ret = True

(* The two hands were given in different orders and have been compared. *)
C5_Witness ==
  /\ IsHand("A") /\ IsHand("B")
  /\ hand["A"].cards # hand["B"].cards
  /\ op.name = "eq"
  /\ ret = True

(* C6: on any two hands exactly one of A < B, A == B, A > B holds, A < B    *)
(* and B < A never both hold, A > B holds iff B < A, and < is transitive.   *)
C6_StrictTotalOrder ==
  (IsHand("A") /\ IsHand("B") /\ op.name \in {"lt", "eq", "gt"}) =>
    LET a == hand["A"]
        b == hand["B"]
    IN  /\ ret.type = "bool"
        /\ Cardinality({f \in {"lt", "eq", "gt"} :
                          CASE f = "lt" -> Hand_lt(a, b) = True
                            [] f = "eq" -> Hand_eq(a, b) = True
                            [] f = "gt" -> Hand_gt(a, b) = True}) = 1
        /\ ~(Hand_lt(a, b) = True /\ Hand_lt(b, a) = True)
        /\ (Hand_gt(a, b) = True) <=> (Hand_lt(b, a) = True)
        /\ \A in \in PairInputs :
             (Hand_lt(a, b) = True /\ Hand_lt(b, Hand(in)) = True)
               => Hand_lt(a, Hand(in)) = True

C8_NeverFails ==
  /\ op.name = "eval" => ret.type = "tuple"
  /\ op.name \in {"eq", "ne", "lt", "le", "gt", "ge"} => ret.type = "bool"

(* C9: A <= B holds exactly when A's category is lower in the hierarchy     *)
(* table, or the categories are the same and A's tie-break key is at most   *)
(* B's.                                                                     *)
C9_LessOrEqualByRank ==
  op.name = "le" =>
    LET a == eval(hand["A"]).val
        b == eval(hand["B"]).val
    IN  /\ ret.type = "bool"
        /\ ret.val <=> \/ hierarchy[a[1]] < hierarchy[b[1]]
                       \/ (a[1] = b[1] /\ a[2] <= b[2])

(* C10, as stated: the cards a hand stores are in canonical order. *)
C10_StoredCanonical ==
  IsHand("A") => IsCanonical(hand["A"].cards)

(* C10, amended: a hand stores its cards in the order given, and its        *)
(* display lists them in canonical order, descending rank and then          *)
(* descending suit code.                                                    *)
C10_DisplayCanonical ==
  IsHand("A") =>
    /\ [i \in 1..HandSize |-> hand["A"].cards[i].name] = InputNames(arg["A"])
    /\ op.name = "repr" =>
         ret = PyStr(<<"<", "H", "a", "n", "d", " ">>
                     \o join(<<" ">>, CanonicalNames(CardsOf("A")))
                     \o <<">">>)

(* A hand stored out of canonical order has been displayed. *)
C10_Witness ==
  /\ IsHand("A")
  /\ ~IsCanonical(hand["A"].cards)
  /\ op.name = "repr"

====
